---- MODULE Spec2Model ----
(***************************************************************************)
(* Model of the word-frequency store and the breadth-first crawl of        *)
(* src/wiki_scraper.py (WikiScraper.count_words and                        *)
(* ScraperController._handle_auto_count; src/wikiscraper.py holds the same *)
(* loop inside ScraperController.run).                                     *)
(***************************************************************************)
EXTENDS Integers, Sequences, FiniteSets, TLC

(***************************************************************************)
(* Bounds of the model.                                                    *)
(***************************************************************************)
\* longest list of internal links one page may hold
MaxLinks == 2
\* largest number of occurrences of one word in one page; the counts of the
\* store file before the run are 0 (no key) or this number
MaxCount == 1
\* largest value of --depth that is tried (the smallest is -1)
MaxDepthArg == 2

\* the page keys of the modelled wiki
Phrases == {"Abra", "Mew", "Mr Mime"}
\* the word tokens of the modelled pages
Words == {"a", "b"}
\* the values --depth takes: type=int accepts negative numbers and zero
DepthArgs == (0 - 1)..MaxDepthArg
\* the values --wait takes (type=float, no range check): one negative value
\* and one that time.sleep accepts
WaitArgs == {0 - 1, 1}

(***************************************************************************)
(* Word-frequency maps: functions from a finite set of words to counts.    *)
(***************************************************************************)
EmptyMap == [w \in {} |-> 0]

MapsUpTo(lo, hi) == UNION {[D -> lo..hi] : D \in SUBSET Words}

\* Counter(words) of a page: every key occurs at least once
Tallies == MapsUpTo(1, MaxCount)

\* m[w] for a key of m, 0 for a word that is no key of m
Count(m, w) == IF w \in DOMAIN m THEN m[w] ELSE 0

(***************************************************************************)
(* The file word-counts.json as count_words meets it.                      *)
(*   absent     os.path.exists is False                                    *)
(*   object     a JSON object of word -> count                             *)
(*   badjson    text json.load rejects with JSONDecodeError (also an empty *)
(*              or truncated file)                                         *)
(*   nonobject  valid JSON that is no object (an array, a number, null):   *)
(*              membership tests or item assignment on it raise TypeError  *)
(*   unreadable the path exists but open/read raises (permissions, bytes   *)
(*              that are not UTF-8)                                        *)
(***************************************************************************)
Absent == [kind |-> "absent", map |-> EmptyMap]
Object(m) == [kind |-> "object", map |-> m]
BadJson == [kind |-> "badjson", map |-> EmptyMap]
NonObject == [kind |-> "nonobject", map |-> EmptyMap]
Unreadable == [kind |-> "unreadable", map |-> EmptyMap]

\* the states of the file before a run
InitFiles ==
    {Absent, BadJson, NonObject, Unreadable} \cup
    {Object(m) : m \in MapsUpTo(MaxCount, MaxCount)}

(***************************************************************************)
(* A fetched document (scraper.soup), as far as the crawl reads it: ok is  *)
(* fetch_data's result, div whether _get_content_div finds the content     *)
(* container, links the phrases of the container's /wiki/ anchors in       *)
(* document order.  The Counter of the container's tokens (current_counts) *)
(* is drawn next to it from Tallies.                                       *)
(***************************************************************************)
LinkLists == UNION {[1..n -> Phrases] : n \in 0..MaxLinks}

FetchFailed == [ok |-> FALSE, div |-> FALSE, links |-> <<>>]
NoContent == [ok |-> TRUE, div |-> FALSE, links |-> <<>>]
Pages == {FetchFailed, NoContent} \cup {[ok |-> TRUE, div |-> TRUE, links |-> l] : l \in LinkLists}

\* the token Counters a page can have: none without a content container
TalliesOf(page) == IF page.ok /\ page.div THEN Tallies ELSE {EmptyMap}

\* outcomes of the write step: it succeeds, open(..., 'w') raises before the
\* file is touched, or json.dump raises after open has truncated the file
WriteOutcomes == {"ok", "open_fails", "dump_fails"}

(***************************************************************************)
(* count_words, step by step.                                              *)
(***************************************************************************)
\* a value of the local variable global_counts, or the escape of an exception
Loaded(m) == [exc |-> FALSE, obj |-> TRUE, map |-> m]
LoadedOther == [exc |-> FALSE, obj |-> FALSE, map |-> EmptyMap]
Raised == [exc |-> TRUE, obj |-> FALSE, map |-> EmptyMap]

\* faulty variant: the except clause is missing, JSONDecodeError escapes
json_load_reraise(f) ==
    CASE f.kind = "absent" -> Loaded(EmptyMap)
      [] f.kind = "object" -> Loaded(f.map)
      [] f.kind = "badjson" -> Raised
      [] f.kind = "nonobject" -> LoadedOther
      [] f.kind = "unreadable" -> Raised

\* faulty variant: the file is never read, global_counts stays {}
json_load_ignores_file(f) == Loaded(EmptyMap)

\* global_counts = {}; if the file exists, json.load it; only JSONDecodeError
\* is caught, and leaves global_counts = {}
json_load(f) ==
    CASE f.kind = "absent" -> Loaded(EmptyMap)
      [] f.kind = "object" -> Loaded(f.map)
      [] f.kind = "badjson" -> Loaded(EmptyMap)
      [] f.kind = "nonobject" -> LoadedOther
      [] f.kind = "unreadable" -> Raised

Put(m, k, v) == [x \in DOMAIN m \cup {k} |-> IF x = k THEN v ELSE m[x]]

\* faulty variant: the count is assigned instead of added
add_word_overwrite(g, word, count) == Put(g, word, count)

\* faulty variant: a key the map already holds is left as it is
add_word_keeps_old(g, word, count) ==
    IF word \in DOMAIN g THEN g ELSE Put(g, word, count)

\* one iteration of the update loop
add_word(g, word, count) ==
    IF word \in DOMAIN g THEN Put(g, word, g[word] + count) ELSE Put(g, word, count)

RECURSIVE update_loop(_, _, _)
update_loop(g, current_counts, todo) ==
    IF todo = {}
    THEN g
    ELSE LET word == CHOOSE w \in todo : TRUE
         IN update_loop(add_word(g, word, current_counts[word]), current_counts,
                        todo \ {word})

\* for word, count in current_counts.items(): ... ; on a value that is no
\* dict the first iteration raises TypeError, and no iteration runs for an
\* empty Counter
update_counts(g, current_counts) ==
    IF g.exc
    THEN g
    ELSE IF g.obj
         THEN Loaded(update_loop(g.map, current_counts, DOMAIN current_counts))
         ELSE IF DOMAIN current_counts = {} THEN g ELSE Raised

\* faulty variant: the failure of the write step is not reported
dump_reports_true(f, g, wr) ==
    CASE wr = "ok" -> [ret |-> "True", file |-> IF g.obj THEN Object(g.map) ELSE NonObject]
      [] wr = "open_fails" -> [ret |-> "True", file |-> f]
      [] wr = "dump_fails" -> [ret |-> "True", file |-> BadJson]

\* the write step: open(WORD_COUNTS_FILE, 'w') truncates, json.dump writes
dump(f, g, wr) ==
    CASE wr = "ok" -> [ret |-> "True", file |-> IF g.obj THEN Object(g.map) ELSE NonObject]
      [] wr = "open_fails" -> [ret |-> "False", file |-> f]
      [] wr = "dump_fails" -> [ret |-> "False", file |-> BadJson]

\* whether count_words on this file and page gets as far as the write step
WriteReached(f, page, current_counts) ==
    /\ page.ok
    /\ page.div
    /\ ~update_counts(json_load(f), current_counts).exc

\* count_words: "True", "False", or "raise" when an exception escapes it
count_words(f, page, current_counts, wr) ==
    IF ~page.ok \/ ~page.div
    THEN [ret |-> "False", file |-> f]
    ELSE LET g == update_counts(json_load(f), current_counts)
         IN IF g.exc THEN [ret |-> "raise", file |-> f] ELSE dump(f, g, wr)

(***************************************************************************)
(* The crawl: ScraperController._handle_auto_count.                        *)
(***************************************************************************)
VARIABLES
    start_phrase,   \* args.auto_count_words
    max_depth,      \* args.depth
    wait_time,      \* args.wait
    queue,          \* deque of <<phrase, depth>>
    visited,        \* set of phrases
    store,          \* the file word-counts.json
    pc,             \* "loop", "expand", "pace", "done", "raised" (count_words
                    \* raised) or "sleep_raised" (time.sleep raised)
    cur,            \* <<current_phrase, current_depth>>
    soup,           \* scraper.soup of the node being processed
    success,        \* what scraper.count_words() gave: "True", "False", "raise"
    call,           \* history of SpecCount: the store before the latest count_words,
                    \* the page's Counter and the outcome of the write step
    fetched,        \* history: the nodes a fetch was attempted for, in order
    enqueued,       \* history: the phrases appended to the queue, in order
    waits,          \* history: number of time.sleep(wait_time) calls
    deltas,         \* SpecCommute: the two Counters <<A, B>> that are merged
    other,          \* SpecCommute: the file of the run that merges B first
    procs,          \* SpecRace: the two executions of count_words
    trace,          \* SpecRace history: the steps taken, in order
    doc,            \* SpecPage: the document behind the scraper's phrase
    req,            \* SpecPage: the method called and its arguments
    result,         \* SpecPage: what the method returned
    csv,            \* SpecPage: the file <phrase>.csv
    graph,          \* SpecGraph: the links of every page, fixed for the crawl
    hist            \* SpecSum history: Counter, result and write outcome of
                    \* every count_words call of the crawl, in order

vars ==
    <<start_phrase, max_depth, wait_time, queue, visited, store, pc, cur, soup, success,
      call, fetched, enqueued, waits, deltas, other, procs, trace, doc, req, result, csv,
      graph, hist>>

\* the variables of the crawl, and those of the other specifications
crawl_vars ==
    <<start_phrase, max_depth, wait_time, queue, visited, cur, fetched, enqueued, waits>>
more_vars == <<deltas, other, procs, trace>>
page_vars == <<doc, req, result, csv>>
graph_vars == <<graph, hist>>

NoDeltas == <<EmptyMap, EmptyMap>>
NoProcs == [p \in {} |-> 0]

NoNode == <<"", 0>>
NoSoup == FetchFailed
NoCall == [pre |-> Absent, words |-> EmptyMap, wr |-> "none"]
\* the values of the SpecPage variables in the other specifications
NoDoc == [fetch |-> "fails", cls |-> FALSE, idd |-> FALSE, paragraphs |-> <<>>,
          tables |-> <<>>, anchors |-> <<>>]
NoReq == [op |-> "none"]
NoResult == "none"
\* the values of graph and hist in the specifications that do not use them
NoGraph ==
    /\ graph = <<>>
    /\ hist = <<>>
NoPage ==
    /\ doc = NoDoc
    /\ req = NoReq
    /\ result = NoResult
    /\ csv = [kind |-> "absent", value |-> ""]

Range(s) == {s[i] : i \in 1..Len(s)}

\* scraper.get_internal_links() on the fetched document
get_internal_links(page) == IF page.ok /\ page.div THEN page.links ELSE <<>>

\* the for loop over links: a link not in visited is added to visited and
\* appended to the queue with current_depth + 1
\* faulty variant: the test "link not in visited" is missing
RECURSIVE add_links_unchecked(_, _, _, _)
add_links_unchecked(links, q, v, depth) ==
    IF links = <<>>
    THEN [queue |-> q, visited |-> v]
    ELSE add_links_unchecked(Tail(links), Append(q, <<Head(links), depth + 1>>),
                             v \cup {Head(links)}, depth)

\* faulty variant: visited.add(link) is missing
RECURSIVE add_links_unmarked(_, _, _, _)
add_links_unmarked(links, q, v, depth) ==
    IF links = <<>>
    THEN [queue |-> q, visited |-> v]
    ELSE LET link == Head(links)
         IN IF link \notin v
            THEN add_links_unmarked(Tail(links), Append(q, <<link, depth + 1>>), v, depth)
            ELSE add_links_unmarked(Tail(links), q, v, depth)

\* faulty variant: the link is queued with current_depth
RECURSIVE add_links_same_depth(_, _, _, _)
add_links_same_depth(links, q, v, depth) ==
    IF links = <<>>
    THEN [queue |-> q, visited |-> v]
    ELSE LET link == Head(links)
         IN IF link \notin v
            THEN add_links_same_depth(Tail(links), Append(q, <<link, depth>>),
                                      v \cup {link}, depth)
            ELSE add_links_same_depth(Tail(links), q, v, depth)

RECURSIVE add_links(_, _, _, _)
add_links(links, q, v, depth) ==
    IF links = <<>>
    THEN [queue |-> q, visited |-> v]
    ELSE LET link == Head(links)
         IN IF link \notin v
            THEN add_links(Tail(links), Append(q, <<link, depth + 1>>), v \cup {link}, depth)
            ELSE add_links(Tail(links), q, v, depth)

\* faulty variant: current_depth <= max_depth
should_expand_inclusive(ok, depth, limit) == ok = "True" /\ depth <= limit

\* faulty variant: the result of count_words is not tested
should_expand_any_result(ok, depth, limit) == depth < limit

\* if success and current_depth < max_depth
should_expand(ok, depth, limit) == ok = "True" /\ depth < limit

\* faulty variant: queue.pop() takes the newest entry
pop_newest(q) == [node |-> q[Len(q)], rest |-> SubSeq(q, 1, Len(q) - 1)]

\* queue.popleft(): the oldest entry, and the queue without it
popleft(q) == [node |-> Head(q), rest |-> Tail(q)]

\* faulty variant: the sleep is not guarded by the queue
must_wait_always(q) == TRUE

\* if queue: the wait is taken only when an entry is left to process
must_wait(q) == q # <<>>

\* whether time.sleep(t) returns; it raises ValueError on a negative length
sleep_returns(t) == t >= 0

Init ==
    /\ start_phrase \in Phrases
    /\ max_depth \in DepthArgs
    /\ wait_time \in WaitArgs
    /\ queue = <<<<start_phrase, 0>>>>
    /\ visited = {start_phrase}
    /\ store \in InitFiles
    /\ pc = "loop"
    /\ cur = NoNode
    /\ soup = NoSoup
    /\ success = "none"
    /\ call = NoCall
    /\ fetched = <<>>
    /\ enqueued = <<start_phrase>>
    /\ waits = 0
    /\ deltas = NoDeltas
    /\ other = Absent
    /\ procs = NoProcs
    /\ trace = <<>>
    /\ NoGraph
    /\ NoPage

\* queue.popleft(); scraper = WikiScraper(current_phrase);
\* success = scraper.count_words()
ProcessStep(page, current_counts, wr) ==
    /\ pc = "loop"
    /\ queue # <<>>
    /\ LET r == count_words(store, page, current_counts, wr)
       IN /\ cur' = popleft(queue).node
          /\ queue' = popleft(queue).rest
          /\ soup' = page
          /\ success' = r.ret
          /\ store' = r.file
          /\ fetched' = Append(fetched, popleft(queue).node)
          /\ pc' = IF r.ret = "raise" THEN "raised" ELSE "expand"
    /\ UNCHANGED <<start_phrase, max_depth, wait_time, visited, enqueued, waits, call>>

\* the same statements with the document, its Counter and the outcome of
\* the write drawn freely for every node
ProcessNode ==
    /\ pc = "loop"
    /\ queue # <<>>
    /\ \E page \in Pages, wr \in WriteOutcomes :
         \E current_counts \in TalliesOf(page) :
           /\ wr = "ok" \/ WriteReached(store, page, current_counts)
           /\ ProcessStep(page, current_counts, wr)
    /\ UNCHANGED more_vars
    /\ UNCHANGED page_vars
    /\ UNCHANGED graph_vars

\* if success and current_depth < max_depth: enqueue the new links
ExpandLinks ==
    /\ pc = "expand"
    /\ LET links == get_internal_links(soup)
           r == IF should_expand(success, cur[2], max_depth)
                THEN add_links(links, queue, visited, cur[2])
                ELSE [queue |-> queue, visited |-> visited]
       IN /\ queue' = r.queue
          /\ visited' = r.visited
          /\ enqueued' = enqueued \o [i \in 1..(Len(r.queue) - Len(queue)) |->
                                        r.queue[Len(queue) + i][1]]
    /\ pc' = "pace"
    /\ UNCHANGED <<start_phrase, max_depth, wait_time, store, cur, soup, success,
                   fetched, waits, call>>
    /\ UNCHANGED more_vars
    /\ UNCHANGED page_vars
    /\ UNCHANGED graph_vars

\* if queue: time.sleep(wait_time); then back to the while test
Pace ==
    /\ pc = "pace"
    /\ waits' = IF must_wait(queue) /\ sleep_returns(wait_time) THEN waits + 1 ELSE waits
    /\ pc' = IF must_wait(queue) /\ ~sleep_returns(wait_time) THEN "sleep_raised" ELSE "loop"
    /\ cur' = NoNode
    /\ soup' = NoSoup
    /\ success' = "none"
    /\ UNCHANGED <<start_phrase, max_depth, wait_time, queue, visited, store, call,
                   fetched, enqueued>>
    /\ UNCHANGED more_vars
    /\ UNCHANGED page_vars
    /\ UNCHANGED graph_vars

\* the while test fails: "Auto scrapping finished"
Finish ==
    /\ pc = "loop"
    /\ queue = <<>>
    /\ pc' = "done"
    /\ UNCHANGED <<start_phrase, max_depth, wait_time, queue, visited, store, cur, soup,
                   success, call, fetched, enqueued, waits>>
    /\ UNCHANGED more_vars
    /\ UNCHANGED page_vars
    /\ UNCHANGED graph_vars

Next == ProcessNode \/ ExpandLinks \/ Pace \/ Finish

Spec == Init /\ [][Next]_vars

\* the crawl as a running program: while a statement of the loop can be
\* executed, one is executed
SpecLive == Spec /\ WF_vars(Next)

(***************************************************************************)
(* One invocation of --count-words: ScraperController._handle_count.       *)
(***************************************************************************)
\* the states of the file before an invocation
CountFiles ==
    {Absent, BadJson, NonObject, Unreadable} \cup
    {Object(m) : m \in MapsUpTo(0, MaxCount + 1)}

InitCount ==
    /\ start_phrase \in Phrases
    /\ max_depth = 0
    /\ wait_time = 1
    /\ queue = <<>>
    /\ visited = {}
    /\ store \in CountFiles
    /\ pc = "cli"
    /\ cur = NoNode
    /\ soup = NoSoup
    /\ success = "none"
    /\ call = NoCall
    /\ fetched = <<>>
    /\ enqueued = <<>>
    /\ waits = 0
    /\ deltas = NoDeltas
    /\ other = Absent
    /\ procs = NoProcs
    /\ trace = <<>>
    /\ NoGraph
    /\ NoPage

\* scraper = WikiScraper(phrase, ...); result = scraper.count_words()
HandleCount ==
    /\ pc = "cli"
    /\ \E page \in {FetchFailed, NoContent, [ok |-> TRUE, div |-> TRUE, links |-> <<>>]},
          wr \in WriteOutcomes :
         \E current_counts \in TalliesOf(page) :
           /\ wr = "ok" \/ WriteReached(store, page, current_counts)
           /\ LET r == count_words(store, page, current_counts, wr)
              IN /\ soup' = page
                 /\ success' = r.ret
                 /\ store' = r.file
                 /\ call' = [pre |-> store, words |-> current_counts,
                             wr |-> IF WriteReached(store, page, current_counts)
                                    THEN wr ELSE "none"]
                 /\ pc' = IF r.ret = "raise" THEN "raised" ELSE "exited"
    /\ UNCHANGED crawl_vars
    /\ UNCHANGED more_vars
    /\ UNCHANGED page_vars
    /\ UNCHANGED graph_vars

NextCount == HandleCount

SpecCount == InitCount /\ [][NextCount]_vars

(***************************************************************************)
(* Two Counters merged into the same file in both orders, each merge a     *)
(* count_words call whose write succeeds.                                  *)
(***************************************************************************)
ContentPage == [ok |-> TRUE, div |-> TRUE, links |-> <<>>]

\* the Counters that are merged: counts may differ between the two
CommuteTallies == MapsUpTo(1, MaxCount + 1)

\* what count_words with a working write step leaves in the file
merged_file(f, current_counts) == count_words(f, ContentPage, current_counts, "ok").file

InitCommute ==
    /\ start_phrase \in {"Abra"}
    /\ max_depth = 0
    /\ wait_time = 1
    /\ queue = <<>>
    /\ visited = {}
    /\ store \in CountFiles
    /\ other = store
    /\ deltas \in CommuteTallies \X CommuteTallies
    /\ pc = "first"
    /\ cur = NoNode
    /\ soup = NoSoup
    /\ success = "none"
    /\ call = NoCall
    /\ fetched = <<>>
    /\ enqueued = <<>>
    /\ waits = 0
    /\ procs = NoProcs
    /\ trace = <<>>
    /\ NoGraph
    /\ NoPage

\* the first merge of each order: A into store, B into other
MergeFirst ==
    /\ pc = "first"
    /\ store' = merged_file(store, deltas[1])
    /\ other' = merged_file(other, deltas[2])
    /\ pc' = "second"
    /\ UNCHANGED <<soup, success, call, deltas, procs, trace>>
    /\ UNCHANGED crawl_vars
    /\ UNCHANGED page_vars
    /\ UNCHANGED graph_vars

\* the second merge of each order: B into store, A into other
MergeSecond ==
    /\ pc = "second"
    /\ store' = merged_file(store, deltas[2])
    /\ other' = merged_file(other, deltas[1])
    /\ pc' = "merged"
    /\ UNCHANGED <<soup, success, call, deltas, procs, trace>>
    /\ UNCHANGED crawl_vars
    /\ UNCHANGED page_vars
    /\ UNCHANGED graph_vars

NextCommute == MergeFirst \/ MergeSecond

SpecCommute == InitCommute /\ [][NextCommute]_vars

\* C6: merging A then B leaves the same file as merging B then A, for every
\* file the merges start from and every two Counters.
C6_MergeCommutes == pc = "merged" => store = other

\* C6 witness: both orders were run on an object with two Counters that
\* share a key with different counts, and both files hold the sum.
C6_Witness ==
    /\ pc = "merged"
    /\ store.kind = "object"
    /\ "a" \in DOMAIN deltas[1] \cap DOMAIN deltas[2]
    /\ deltas[1]["a"] # deltas[2]["a"]
    /\ "a" \in DOMAIN store.map
    /\ other.map["a"] >= deltas[1]["a"] + deltas[2]["a"]

(***************************************************************************)
(* Two executions of count_words on the same file that interleave: each    *)
(* reads and updates its own global_counts (lines 284-298), then writes it *)
(* (lines 300-303).  Nothing in the code orders the two.                   *)
(***************************************************************************)
Procs == {1, 2}

InitRace ==
    /\ start_phrase \in {"Abra"}
    /\ max_depth = 0
    /\ wait_time = 1
    /\ queue = <<>>
    /\ visited = {}
    /\ store \in InitFiles
    /\ call = [pre |-> store, words |-> EmptyMap, wr |-> "none"]
    /\ procs \in [Procs -> {[pc |-> "read", words |-> t, g |-> Loaded(EmptyMap), ret |-> "none"] :
                              t \in Tallies}]
    /\ trace = <<>>
    /\ NoGraph
    /\ NoPage
    /\ pc = "race"
    /\ cur = NoNode
    /\ soup = NoSoup
    /\ success = "none"
    /\ fetched = <<>>
    /\ enqueued = <<>>
    /\ waits = 0
    /\ deltas = NoDeltas
    /\ other = Absent

\* lines 284-298 of execution p: load the file, add the page's Counter
load_and_update(p) ==
    LET g == update_counts(json_load(store), procs[p].words)
    IN /\ procs' = [procs EXCEPT ![p].g = g,
                                 ![p].pc = IF g.exc THEN "raised" ELSE "write",
                                 ![p].ret = IF g.exc THEN "raise" ELSE "none"]
       /\ store' = store

\* variant with the read-modify-write made one step: the file is read
\* again and the Counter added to what it holds now
dump_after_reload(p) ==
    LET g == update_counts(json_load(store), procs[p].words)
        r == dump(store, IF g.exc THEN procs[p].g ELSE g, "ok")
    IN /\ store' = r.file
       /\ procs' = [procs EXCEPT ![p].pc = "done", ![p].ret = r.ret]

\* lines 300-303 of execution p: write its global_counts over the file
dump_counts(p) ==
    LET r == dump(store, procs[p].g, "ok")
    IN /\ store' = r.file
       /\ procs' = [procs EXCEPT ![p].pc = "done", ![p].ret = r.ret]

Load(p) ==
    /\ pc = "race"
    /\ procs[p].pc = "read"
    /\ load_and_update(p)
    /\ trace' = Append(trace, <<"load", p>>)
    /\ UNCHANGED <<pc, soup, success, call, deltas, other>>
    /\ UNCHANGED crawl_vars
    /\ UNCHANGED page_vars
    /\ UNCHANGED graph_vars

Dump(p) ==
    /\ pc = "race"
    /\ procs[p].pc = "write"
    /\ dump_counts(p)
    /\ trace' = Append(trace, <<"dump", p>>)
    /\ UNCHANGED <<pc, soup, success, call, deltas, other>>
    /\ UNCHANGED crawl_vars
    /\ UNCHANGED page_vars
    /\ UNCHANGED graph_vars

NextRace == \E p \in Procs : Load(p) \/ Dump(p)

SpecRace == InitRace /\ [][NextRace]_vars

\* position of a step in the history
Pos(e) == CHOOSE i \in 1..Len(trace) : trace[i] = e

\* the execution that wrote last
LastWriter == trace[Len(trace)][2]

\* C10: when both executions have returned True on a file that was absent,
\* an object or undecodable, the file holds the old counts plus the Counter
\* of the execution that wrote last, and the Counter of the other one only
\* if that one had written before the last writer read; so the other
\* Counter is lost whenever the two read-to-write windows overlap.
C10_LastWriterWins ==
    (/\ pc = "race"
     /\ \A p \in Procs : procs[p].pc = "done" /\ procs[p].ret = "True"
     /\ call.pre.kind \in {"absent", "object", "badjson"}) =>
        LET p == LastWriter
            q == CHOOSE x \in Procs : x # p
            base == json_load(call.pre).map
            serial == Pos(<<"dump", q>>) < Pos(<<"load", p>>)
        IN /\ store.kind = "object"
           /\ \A w \in Words :
                Count(store.map, w) =
                    Count(base, w) + Count(procs[p].words, w)
                    + (IF serial THEN Count(procs[q].words, w) ELSE 0)

\* C10 witness (a lost update): both executions returned True, execution 1
\* counted "a", and the final file holds no more of "a" than before.
C10_Witness ==
    /\ pc = "race"
    /\ \A p \in Procs : procs[p].pc = "done" /\ procs[p].ret = "True"
    /\ call.pre.kind = "object"
    /\ "a" \in DOMAIN procs[1].words
    /\ "a" \notin DOMAIN procs[2].words
    /\ "b" \in DOMAIN procs[2].words
    /\ Count(store.map, "a") = Count(call.pre.map, "a")
    /\ Count(store.map, "b") = Count(call.pre.map, "b") + procs[2].words["b"]


(***************************************************************************)
(* Properties of the crawl (checked under Spec).                           *)
(***************************************************************************)
FetchedPhrases == {fetched[i][1] : i \in 1..Len(fetched)}

\* the links of the current document that the visited set does not hold
NewLinks == {soup.links[i] : i \in 1..Len(soup.links)} \ visited

\* C1: every phrase is appended to the queue at most once in a crawl: the
\* sequence of phrases ever appended (the start phrase first) has no
\* repetition, however many pages link to a phrase and however often one
\* page repeats the link.
C1_VisitedOnce ==
    \A i, j \in 1..Len(enqueued) : enqueued[i] = enqueued[j] => i = j

\* C1 witness: the second processed page was expanded, holds the same link
\* twice, and that link had been enqueued before.
C1_Witness ==
    /\ pc = "pace"
    /\ Len(fetched) = 2
    /\ should_expand(success, cur[2], max_depth)
    /\ Len(soup.links) = 2
    /\ soup.links[1] = soup.links[2]
    /\ soup.links[1] \in Range(enqueued)
    /\ soup.links[1] # cur[1]

\* C2 as stated: no node is ever fetched at a depth above max_depth,
\* whatever integer --depth was given.
C2_DepthBoundAnyDepth ==
    \A i \in 1..Len(fetched) : fetched[i][2] <= max_depth

\* C2 amended: no node is ever fetched at a depth above max_depth when
\* max_depth >= 0; with a negative max_depth the start phrase (depth 0) is
\* still fetched, and nothing deeper is.
C2_DepthBound ==
    \A i \in 1..Len(fetched) :
        fetched[i][2] <= (IF max_depth >= 0 THEN max_depth ELSE 0)

\* C2 witness: a node at depth max_depth >= 1 was counted, its page links
\* to a phrase never visited, and the link was not enqueued.
C2_Witness ==
    /\ pc = "pace"
    /\ max_depth >= 1
    /\ cur[2] = max_depth
    /\ success = "True"
    /\ NewLinks # {}
    /\ queue = <<>>

\* what expanding the current node does to queue and visited: every link is
\* visited afterwards, the queue keeps its entries and gains one entry at
\* depth + 1 for each link that was not visited, each once, in link order
ExpandEffect ==
    /\ visited' = visited \cup Range(soup.links)
    /\ Len(queue') = Len(queue) + Cardinality(NewLinks)
    /\ \A i \in 1..Len(queue) : queue'[i] = queue[i]
    /\ \A i \in (Len(queue) + 1)..Len(queue') :
         /\ queue'[i][2] = cur[2] + 1
         /\ queue'[i][1] \in NewLinks
         /\ \A j \in (Len(queue) + 1)..Len(queue') : queue'[i][1] = queue'[j][1] => i = j
         /\ \A j \in (Len(queue) + 1)..Len(queue') :
              i < j =>
                (CHOOSE k \in 1..Len(soup.links) :
                    /\ soup.links[k] = queue'[i][1]
                    /\ \A l \in 1..(k - 1) : soup.links[l] # queue'[i][1])
                < (CHOOSE k \in 1..Len(soup.links) :
                    /\ soup.links[k] = queue'[j][1]
                    /\ \A l \in 1..(k - 1) : soup.links[l] # queue'[j][1])

NoExpandEffect == queue' = queue /\ visited' = visited

\* C3 as stated: the step after count_words expands the node exactly when
\* the fetch and the content location succeeded and depth < max_depth,
\* whatever the write of the store did.
C3_ExpandsUnlessFetchFailed ==
    [][pc = "expand" =>
         IF soup.ok /\ soup.div /\ cur[2] < max_depth
         THEN ExpandEffect
         ELSE NoExpandEffect]_vars

\* C3 amended: the step after count_words expands the node exactly when
\* count_words returned True (fetch, content location and the write of the
\* store all succeeded) and depth < max_depth; otherwise queue and visited
\* stay as they are.
C3_ExpansionRule ==
    [][pc = "expand" =>
         IF success = "True" /\ cur[2] < max_depth
         THEN ExpandEffect
         ELSE NoExpandEffect]_vars

\* C3 witness: a node whose count_words returned True below max_depth was
\* expanded and two new phrases entered the queue.
C3_Witness ==
    /\ pc = "pace"
    /\ success = "True"
    /\ cur[2] < max_depth
    /\ Len(soup.links) = 2
    /\ Len(queue) >= 2
    /\ queue[Len(queue)] = <<soup.links[2], cur[2] + 1>>
    /\ queue[Len(queue) - 1] = <<soup.links[1], cur[2] + 1>>

\* C4: when the crawl has ended, every phrase that was enqueued has been
\* dequeued and processed, whatever failed on the way.
C4_AllEnqueuedProcessed ==
    pc \in {"done", "raised"} => Range(enqueued) = FetchedPhrases

\* C19: the nodes are processed in the order in which their phrases were
\* appended to the queue (the start phrase first, then the links of each
\* expanded page in link order), and the depths of the processed nodes
\* never decrease.
C19_BreadthFirst ==
    /\ Len(fetched) <= Len(enqueued)
    /\ \A i \in 1..Len(fetched) : fetched[i][1] = enqueued[i]
    /\ \A i, j \in 1..Len(fetched) : i < j => fetched[i][2] <= fetched[j][2]

\* C19 witness: the start page was expanded with two new links and both
\* were processed at depth 1, in link order.
C19_Witness ==
    /\ Len(fetched) = 3
    /\ fetched[1][2] = 0
    /\ fetched[2] = <<enqueued[2], 1>>
    /\ fetched[3] = <<enqueued[3], 1>>

\* C20: one wait is taken after every processed node that leaves the queue
\* non-empty and none after the last: before a node is dequeued there have
\* been as many waits as processed nodes, and from the moment a node is
\* dequeued until the wait that follows it, and when the crawl has ended,
\* one less; a crawl that ends after n nodes has waited n - 1 times.
C20_Pacing ==
    /\ (pc = "loop" /\ queue # <<>>) => waits = Len(fetched)
    /\ (pc = "loop" /\ queue = <<>>) => waits = Len(fetched) - 1
    /\ pc \in {"expand", "pace", "raised", "sleep_raised", "done"} =>
         waits = Len(fetched) - 1

\* C20 witness: a crawl of three nodes has ended after two waits.
C20_Witness ==
    /\ pc = "done"
    /\ Len(fetched) = 3
    /\ waits = 2

\* every phrase in the queue is in visited, and visited is exactly the set
\* of phrases appended to the queue so far, the start phrase among them
MarkedWhenQueued ==
    /\ \A i \in 1..Len(queue) : queue[i][1] \in visited
    /\ visited = Range(enqueued)
    /\ start_phrase \in visited

\* C21: before and after every step of a crawl every phrase in the queue is
\* in visited and visited is exactly the set of phrases appended to the
\* queue so far (the start phrase from the beginning), so a phrase is in
\* visited from the step that appends it and not only once it is processed;
\* and no step removes a phrase from visited.
C21_MarkOnEnqueue ==
    [][MarkedWhenQueued /\ MarkedWhenQueued' /\ visited \subseteq visited']_vars

\* C21 witness: after the first page was expanded two linked phrases wait in
\* the queue, both already in visited and neither processed.
C21_Witness ==
    /\ pc = "pace"
    /\ Len(fetched) = 1
    /\ Len(queue) = 2
    /\ \A i \in 1..Len(queue) : queue[i][1] \in visited \ FetchedPhrases
    /\ Cardinality(visited) = 3

\* C22: every crawl ends in the terminal state: the loop is left with an
\* empty queue and every phrase that was appended to the queue has been
\* processed, exactly once.
C22_Terminates ==
    <>(/\ pc = "done"
       /\ queue = <<>>
       /\ Len(fetched) = Len(enqueued)
       /\ \A i \in 1..Len(enqueued) : fetched[i][1] = enqueued[i]
       /\ \A i, j \in 1..Len(fetched) : fetched[i][1] = fetched[j][1] => i = j)

\* C8: count_words never lets an exception escape, whatever the file
\* word-counts.json holds.
C8_NeverRaises == success # "raise" /\ pc # "raised"

(***************************************************************************)
(* Properties of one count_words call (checked under SpecCount).           *)
(***************************************************************************)
\* C5: a count_words call that returns True on an absent file or on a file
\* holding a word -> count object leaves an object whose keys are those of
\* the old map and of the page's Counter, each count the sum of the two
\* (0 for a missing key); keys the Counter lacks keep their count.
C5_KeyWiseMerge ==
    (pc = "exited" /\ success = "True" /\ call.pre.kind \in {"absent", "object"}) =>
        /\ store.kind = "object"
        /\ DOMAIN store.map = DOMAIN call.pre.map \cup DOMAIN call.words
        /\ \A w \in Words :
             Count(store.map, w) = Count(call.pre.map, w) + Count(call.words, w)
        /\ \A w \in DOMAIN call.pre.map \ DOMAIN call.words :
             store.map[w] = call.pre.map[w]

\* C5 witness: the old map holds "a" only, the page counts "a" and "b":
\* "a" is summed and "b" is created.
C5_Witness ==
    /\ pc = "exited"
    /\ success = "True"
    /\ call.pre.kind = "object"
    /\ DOMAIN call.pre.map = {"a"}
    /\ call.pre.map["a"] > 0
    /\ DOMAIN call.words = {"a", "b"}
    /\ store = Object([w \in {"a", "b"} |->
                         IF w = "a" THEN call.pre.map["a"] + call.words["a"]
                         ELSE call.words["b"]])

C9_WriteFailureLeavesFile ==
    (pc # "cli" /\ call.wr \in {"open_fails", "dump_fails"}) =>
        (success = "False" /\ store = call.pre)

\* C9 amended: whenever the write step fails, count_words returns False; the
\* file holds what it held before the call when open(..., 'w') failed, and
\* is left truncated (no longer decodable) when the failure came after the
\* open, in json.dump.
C9_WriteFailure ==
    (pc # "cli" /\ call.wr \in {"open_fails", "dump_fails"}) =>
        /\ success = "False"
        /\ call.wr = "open_fails" => store = call.pre
        /\ call.wr = "dump_fails" => store = BadJson

\* C9 witness: json.dump failed on a file that held a non-empty object.
C9_Witness ==
    /\ pc = "exited"
    /\ call.wr = "dump_fails"
    /\ call.pre.kind = "object"
    /\ call.pre.map # EmptyMap
    /\ success = "False"
    /\ store = BadJson

(***************************************************************************)
(* The page methods of WikiScraper, each called once on a scraper          *)
(* (SpecPage).  A string is a sequence of tokens; "/wiki/", "_", " " and   *)
(* "\n" are tokens of their own, so that startswith, replace and strip act *)
(* on them as the str methods act on the characters.                       *)
(***************************************************************************)
MaxParagraphs == 2
MaxTables == 2

Whitespace == {" ", "\n"}

\* str.strip(), in two halves
RECURSIVE lstrip(_)
lstrip(t) == IF t # <<>> /\ Head(t) \in Whitespace THEN lstrip(Tail(t)) ELSE t

RECURSIVE rstrip(_)
rstrip(t) ==
    IF t # <<>> /\ t[Len(t)] \in Whitespace THEN rstrip(SubSeq(t, 1, Len(t) - 1)) ELSE t

strip(t) == rstrip(lstrip(t))

\* str.replace(old, new): every occurrence of the token old becomes the text new
RECURSIVE replace(_, _, _)
replace(t, old, new) ==
    IF t = <<>>
    THEN <<>>
    ELSE (IF Head(t) = old THEN new ELSE <<Head(t)>>) \o replace(Tail(t), old, new)

\* str.startswith(prefix) for a prefix of one token
startswith(t, prefix) == t # <<>> /\ Head(t) = prefix

\* seq[i] of Python: indices from 0, negative ones count from the end
item(seq, i) == IF i < 0 THEN seq[Len(seq) + i + 1] ELSE seq[i + 1]

\* the texts a <p> element can have
ParagraphTexts ==
    {<<>>, <<"\n">>, <<" ", "Mew", " ">>, <<"Abra">>, <<"Mew", " ", "Abra", "\n">>}
ParagraphLists == UNION {[1..n -> ParagraphTexts] : n \in 0..MaxParagraphs}

\* a <table> element: its cell content and what pd.read_html makes of it
\* (a DataFrame, an empty list, or an exception)
TableElements == [cells : {"x", "y"}, parse : {"frame", "none", "raises"}]
TableLists == UNION {[1..n -> TableElements] : n \in 0..MaxTables}

\* the href attributes of <a> elements; an <a> can lack the attribute
Hrefs ==
    {<<"/wiki/", "Mew">>, <<"/wiki/", "Mr", "_", "Mime">>,
     <<"/wiki/", "File:", "Mew", ".png">>, <<"/wiki/", "Abra", "/wiki/", "Mew">>,
     <<"https://example.org", "/wiki/", "Mew">>, <<"#", "top">>}
Anchors ==
    {[has_href |-> FALSE, href |-> <<>>]} \cup {[has_href |-> TRUE, href |-> h] : h \in Hrefs}
AnchorLists == UNION {[1..n -> Anchors] : n \in 0..MaxLinks}

\* the methods of SpecPage; "locate" is _get_content_div called on its own
Ops == {"locate", "summary", "text", "table", "count", "links"}

\* the documents a call of op is run on.  fetch: "loaded" when self.soup
\* already holds the document, "ok" when self.soup is None and fetch_data
\* will succeed, "fails" when it is None and fetch_data will fail.  cls and
\* idd: whether a div of class mw-parser-output / of id mw-content-text
\* exists.  The parts of the content that op does not read are left empty.
DocsFor(op) ==
    [fetch : {"loaded", "ok", "fails"}, cls : BOOLEAN, idd : BOOLEAN,
     paragraphs : IF op \in {"summary", "text"} THEN ParagraphLists ELSE {<<>>},
     tables : IF op = "table" THEN TableLists ELSE {<<>>},
     anchors : IF op = "links" THEN AnchorLists ELSE {<<>>}]

\* the values of --number: type=int, no range check
TableNumbers == (0 - 1)..(MaxTables + 1)

None == [by |-> "none"]

\* fetch_data(): its return value, and the scraper after it
fetch_data(d) == d.fetch # "fails"
after_fetch(d) == IF d.fetch = "ok" THEN [d EXCEPT !.fetch = "loaded"] ELSE d

\* faulty variant: the id is tried before the class
get_content_div_id_first(d) ==
    IF d.fetch # "loaded"
    THEN None
    ELSE IF d.idd
         THEN [by |-> "id", paragraphs |-> d.paragraphs, tables |-> d.tables,
               anchors |-> d.anchors]
         ELSE IF d.cls
              THEN [by |-> "class", paragraphs |-> d.paragraphs, tables |-> d.tables,
                    anchors |-> d.anchors]
              ELSE None

\* _get_content_div(): None without a soup, else the div found by class,
\* else the div found by id, else None
get_content_div(d) ==
    IF d.fetch # "loaded"
    THEN None
    ELSE IF d.cls
         THEN [by |-> "class", paragraphs |-> d.paragraphs, tables |-> d.tables,
               anchors |-> d.anchors]
         ELSE IF d.idd
              THEN [by |-> "id", paragraphs |-> d.paragraphs, tables |-> d.tables,
                    anchors |-> d.anchors]
              ELSE None

\* faulty variant: the first paragraph is taken even when its text is blank
first_text_any_paragraph(paragraphs) ==
    IF paragraphs = <<>> THEN <<"No summary available.">> ELSE strip(Head(paragraphs))

\* the loop of get_summary over find_all('p')
RECURSIVE first_text(_)
first_text(paragraphs) ==
    IF paragraphs = <<>>
    THEN <<"No summary available.">>
    ELSE IF strip(Head(paragraphs)) # <<>>
         THEN strip(Head(paragraphs))
         ELSE first_text(Tail(paragraphs))

get_summary(d) ==
    IF d.fetch # "loaded" /\ ~fetch_data(d)
    THEN <<"Error: could not fetch data.">>
    ELSE LET content_div == get_content_div(after_fetch(d))
         IN IF content_div = None
            THEN <<"Could not find content on the page.">>
            ELSE first_text(content_div.paragraphs)

\* get_text(separator=' ', strip=True): the stripped non-blank strings,
\* joined by one space
RECURSIVE get_text(_)
get_text(strings) ==
    IF strings = <<>>
    THEN <<>>
    ELSE LET head == strip(Head(strings))
             rest == get_text(Tail(strings))
         IN IF head = <<>> THEN rest
            ELSE IF rest = <<>> THEN head
            ELSE head \o <<" ">> \o rest

\* faulty variant: a message instead of the empty string
get_article_text_message(d) ==
    IF d.fetch # "loaded" /\ ~fetch_data(d)
    THEN <<"Error: could not fetch data.">>
    ELSE LET content_div == get_content_div(after_fetch(d))
         IN IF content_div = None
            THEN <<"Could not find content on the page.">>
            ELSE get_text(content_div.paragraphs)

get_article_text(d) ==
    IF d.fetch # "loaded" /\ ~fetch_data(d)
    THEN <<>>
    ELSE LET content_div == get_content_div(after_fetch(d))
         IN IF content_div = None THEN <<>> ELSE get_text(content_div.paragraphs)

\* what get_table returns first: a DataFrame or a message (number: the
\* table number quoted in the message, 0 when it quotes none)
Frame(cells) == [kind |-> "frame", value |-> cells, number |-> 0]
Message(text) == [kind |-> "message", value |-> text, number |-> 0]
NoSuchTable(table_number) ==
    [kind |-> "message", value |-> "Table number does not exist on the page.",
     number |-> table_number]
\* what get_table returns second: the value counts or None
Series(cells) == [kind |-> "series", value |-> cells]
NoSeries == [kind |-> "None", value |-> ""]

\* the file <phrase>.csv: absent, left by an earlier run, holding a written
\* table, or cut short by a failed write
CsvAbsent == [kind |-> "absent", value |-> ""]
CsvStale == [kind |-> "stale", value |-> ""]
CsvPartial == [kind |-> "partial", value |-> ""]
CsvOf(cells) == [kind |-> "table", value |-> cells]

\* _table_to_dataframe: the DataFrame, None, or an exception of pd.read_html
table_to_dataframe(table) ==
    CASE table.parse = "frame" -> [exc |-> FALSE, none |-> FALSE, df |-> table.cells]
      [] table.parse = "none" -> [exc |-> FALSE, none |-> TRUE, df |-> ""]
      [] OTHER -> [exc |-> TRUE, none |-> TRUE, df |-> ""]

\* _count_table_values
count_table_values(df) == Series(df)

\* df.to_csv(csv_filename, ...): wr as in the write step of count_words
to_csv(df, file, wr) ==
    CASE wr = "ok" -> [exc |-> FALSE, file |-> CsvOf(df)]
      [] wr = "open_fails" -> [exc |-> TRUE, file |-> file]
      [] OTHER -> [exc |-> TRUE, file |-> CsvPartial]

\* faulty variant: the table number is taken as an index from 0
out_of_range_from_zero(table_number, n) == table_number >= n \/ table_number < 0

\* table_number > len(tables) or table_number < 1
out_of_range(table_number, n) == table_number > n \/ table_number < 1

\* get_table: the returned pair and the file <phrase>.csv after the call
get_table(d, table_number, file, wr) ==
    IF d.fetch # "loaded" /\ ~fetch_data(d)
    THEN [table |-> Message("Error: Could not fetch data."), freq |-> NoSeries,
          file |-> file]
    ELSE LET content_div == get_content_div(after_fetch(d))
         IN IF content_div = None
            THEN [table |-> Message("Could not find content on the page."),
                  freq |-> NoSeries, file |-> file]
            ELSE IF out_of_range(table_number, Len(content_div.tables))
            THEN [table |-> NoSuchTable(table_number), freq |-> NoSeries, file |-> file]
            ELSE LET selected_table == item(content_div.tables, table_number - 1)
                     parsed == table_to_dataframe(selected_table)
                     written == to_csv(parsed.df, file, wr)
                 IN IF parsed.exc
                    THEN [table |-> Message("Error processing table"), freq |-> NoSeries,
                          file |-> file]
                    ELSE IF parsed.none
                    THEN [table |-> Message("Could not extract table"), freq |-> NoSeries,
                          file |-> file]
                    ELSE IF written.exc
                    THEN [table |-> Message("Error processing table"), freq |-> NoSeries,
                          file |-> written.file]
                    ELSE [table |-> Frame(parsed.df), freq |-> count_table_values(parsed.df),
                          file |-> written.file]

\* href.replace("/wiki/", "").replace("_", " ")
href_phrase(href) == replace(replace(href, "/wiki/", <<>>), "_", <<" ">>)

\* the loop of get_internal_links over find_all('a', href=True)
RECURSIVE collect_links(_)
collect_links(anchors) ==
    IF anchors = <<>>
    THEN <<>>
    ELSE LET a_tag == Head(anchors)
             rest == collect_links(Tail(anchors))
         IN IF a_tag.has_href /\ startswith(a_tag.href, "/wiki/")
            THEN <<href_phrase(a_tag.href)>> \o rest
            ELSE rest

\* get_internal_links of a scraper: it never fetches
links_of(d) ==
    LET content_div == get_content_div(d)
    IN IF content_div = None THEN <<>> ELSE collect_links(content_div.anchors)

\* the page of the crawl model that count_words sees for a document
page_of(d) ==
    [ok |-> fetch_data(d) \/ d.fetch = "loaded",
     div |-> get_content_div(after_fetch(d)) # None,
     links |-> <<>>]

\* scraper = WikiScraper(phrase), then one method call.  req holds the
\* method and its arguments, the outcome wr of a write the method may
\* reach, and the document and the CSV file as they were before the call.
InitPage ==
    /\ start_phrase = "Mew"
    /\ max_depth = 0
    /\ wait_time = 1
    /\ queue = <<>>
    /\ visited = {}
    /\ pc = "call"
    /\ cur = NoNode
    /\ soup = NoSoup
    /\ success = "none"
    /\ fetched = <<>>
    /\ enqueued = <<>>
    /\ waits = 0
    /\ deltas = NoDeltas
    /\ other = Absent
    /\ procs = NoProcs
    /\ trace = <<>>
    /\ NoGraph
    /\ result = NoResult
    /\ \E op \in Ops :
         \E d \in DocsFor(op),
            table_number \in (IF op = "table" THEN TableNumbers ELSE {1}),
            wr \in (IF op \in {"table", "count"} THEN WriteOutcomes ELSE {"ok"}),
            file \in {CsvAbsent, CsvStale},
            f \in (IF op = "count" THEN InitFiles ELSE {Absent}) :
           \E current_counts \in (IF op = "count" THEN TalliesOf(page_of(d))
                                                 ELSE {EmptyMap}) :
             /\ doc = d
             /\ req = [op |-> op, table_number |-> table_number, wr |-> wr,
                       csv0 |-> file, doc0 |-> d]
             /\ csv = file
             /\ store = f
             /\ call = [pre |-> f, words |-> current_counts, wr |-> wr]

\* scraper._get_content_div()
Locate ==
    /\ pc = "call"
    /\ req.op = "locate"
    /\ result' = get_content_div(doc)
    /\ pc' = "returned"
    /\ UNCHANGED <<doc, req, csv, store, soup, success, call>>
    /\ UNCHANGED crawl_vars
    /\ UNCHANGED more_vars
    /\ UNCHANGED graph_vars

\* scraper.get_summary()
GetSummary ==
    /\ pc = "call"
    /\ req.op = "summary"
    /\ result' = get_summary(doc)
    /\ doc' = after_fetch(doc)
    /\ pc' = "returned"
    /\ UNCHANGED <<req, csv, store, soup, success, call>>
    /\ UNCHANGED crawl_vars
    /\ UNCHANGED more_vars
    /\ UNCHANGED graph_vars

\* scraper.get_article_text()
GetArticleText ==
    /\ pc = "call"
    /\ req.op = "text"
    /\ result' = get_article_text(doc)
    /\ doc' = after_fetch(doc)
    /\ pc' = "returned"
    /\ UNCHANGED <<req, csv, store, soup, success, call>>
    /\ UNCHANGED crawl_vars
    /\ UNCHANGED more_vars
    /\ UNCHANGED graph_vars

\* scraper.get_table(table_number)
GetTable ==
    /\ pc = "call"
    /\ req.op = "table"
    /\ LET r == get_table(doc, req.table_number, csv, req.wr)
       IN /\ result' = <<r.table, r.freq>>
          /\ csv' = r.file
    /\ doc' = after_fetch(doc)
    /\ pc' = "returned"
    /\ UNCHANGED <<req, store, soup, success, call>>
    /\ UNCHANGED crawl_vars
    /\ UNCHANGED more_vars
    /\ UNCHANGED graph_vars

\* scraper.count_words()
CountWords ==
    /\ pc = "call"
    /\ req.op = "count"
    /\ LET r == count_words(store, page_of(doc), call.words, req.wr)
       IN /\ result' = r.ret
          /\ store' = r.file
          /\ pc' = IF r.ret = "raise" THEN "raised" ELSE "returned"
    /\ doc' = after_fetch(doc)
    /\ UNCHANGED <<req, csv, soup, success, call>>
    /\ UNCHANGED crawl_vars
    /\ UNCHANGED more_vars
    /\ UNCHANGED graph_vars

\* scraper.get_internal_links()
GetInternalLinks ==
    /\ pc = "call"
    /\ req.op = "links"
    /\ result' = links_of(doc)
    /\ pc' = "returned"
    /\ UNCHANGED <<doc, req, csv, store, soup, success, call>>
    /\ UNCHANGED crawl_vars
    /\ UNCHANGED more_vars
    /\ UNCHANGED graph_vars

NextPage ==
    \/ Locate
    \/ GetSummary
    \/ GetArticleText
    \/ GetTable
    \/ CountWords
    \/ GetInternalLinks

SpecPage == InitPage /\ [][NextPage]_vars

\* whether the call found a content region
ContentFound == req.doc0.fetch # "fails" /\ (req.doc0.cls \/ req.doc0.idd)

\* C11: get_table answers that the table does not exist exactly when the
\* table number is below 1 or above the number N of tables of the content
\* region, and then returns no value counts and leaves the CSV file as it
\* was; for a number from 1 to N the outcome is that of the table at that
\* position in document order: its DataFrame, value counts and CSV file
\* when it parses and the write succeeds, a processing message otherwise.
C11_TableIndex ==
    (req.op = "table" /\ pc = "returned" /\ ContentFound) =>
        LET n == Len(req.doc0.tables)
            k == req.table_number
        IN /\ (result[1] = NoSuchTable(k)) <=> (k < 1 \/ k > n)
           /\ (k < 1 \/ k > n) => (result[2] = NoSeries /\ csv = req.csv0)
           /\ (k >= 1 /\ k <= n) =>
                LET t == req.doc0.tables[k]
                IN /\ (t.parse = "frame" /\ req.wr = "ok") =>
                        /\ result = <<Frame(t.cells), Series(t.cells)>>
                        /\ csv = CsvOf(t.cells)
                   /\ t.parse = "none" => result[1] = Message("Could not extract table")
                   /\ t.parse = "raises" => result[1] = Message("Error processing table")
                   /\ t.parse # "frame" => csv = req.csv0

\* C11 witness: the second of two different tables was asked for and
\* returned, and a number above N was answered with the message.
C11_Witness ==
    /\ req.op = "table"
    /\ pc = "returned"
    /\ ContentFound
    /\ Len(req.doc0.tables) = 2
    /\ req.doc0.tables[1].cells # req.doc0.tables[2].cells
    /\ req.table_number = 2
    /\ result[1] = Frame(req.doc0.tables[2].cells)

\* C12: when the selected table was parsed into a DataFrame and writing
\* <phrase>.csv fails, get_table still returns the DataFrame and its value
\* counts.
C12_BestEffortExport ==
    (/\ req.op = "table"
     /\ pc = "returned"
     /\ ContentFound
     /\ req.table_number \in 1..Len(req.doc0.tables)
     /\ req.doc0.tables[req.table_number].parse = "frame"
     /\ req.wr # "ok") =>
        result = <<Frame(req.doc0.tables[req.table_number].cells),
                   Series(req.doc0.tables[req.table_number].cells)>>

\* the phrase as C13 states it: the href without its first token "/wiki/",
\* underscores replaced by spaces
leading_prefix_stripped(href) == replace(Tail(href), "_", <<" ">>)

RECURSIVE stated_links(_)
stated_links(anchors) ==
    IF anchors = <<>>
    THEN <<>>
    ELSE IF Head(anchors).has_href /\ startswith(Head(anchors).href, "/wiki/")
         THEN <<leading_prefix_stripped(Head(anchors).href)>> \o stated_links(Tail(anchors))
         ELSE stated_links(Tail(anchors))

\* C13: on a loaded document with a content region, get_internal_links
\* returns, in document order, one phrase for each anchor whose href starts
\* with /wiki/ and none for any other anchor, each phrase being the href
\* with only the leading /wiki/ removed and underscores replaced by spaces.
C13_LinkRecognition ==
    (/\ req.op = "links"
     /\ pc = "returned"
     /\ req.doc0.fetch = "loaded"
     /\ ContentFound) =>
        result = stated_links(req.doc0.anchors)

\* C15: when the fetch fails or no content region is found, every method
\* returns (none raises), get_summary and get_table return a message (and
\* get_table no value counts), get_article_text returns the empty string,
\* count_words False and get_internal_links the empty list; the frequency
\* file and the CSV file are as before the call.
C15_NoContentNoEffect ==
    (pc # "call" /\ req.op \in Ops \ {"locate"} /\ ~ContentFound) =>
        /\ pc = "returned"
        /\ store = call.pre
        /\ csv = req.csv0
        /\ req.op = "summary" =>
             result \in {<<"Error: could not fetch data.">>,
                         <<"Could not find content on the page.">>}
        /\ req.op = "table" =>
             /\ result[1] \in {Message("Error: Could not fetch data."),
                               Message("Could not find content on the page.")}
             /\ result[2] = NoSeries
        /\ req.op = "text" => result = <<>>
        /\ req.op = "count" => result = "False"
        /\ req.op = "links" => result = <<>>

\* C15 witness: count_words on a page that was fetched but has no content
\* region returned False and left an existing frequency file alone.
C15_Witness ==
    /\ req.op = "count"
    /\ pc = "returned"
    /\ req.doc0.fetch = "ok"
    /\ ~req.doc0.cls
    /\ ~req.doc0.idd
    /\ result = "False"
    /\ store = call.pre
    /\ store.kind = "object"

\* C16: with a content region, get_summary returns the stripped text of the
\* first paragraph in document order whose stripped text is not empty, and
\* 'No summary available.' when there is no such paragraph.
C16_SummaryExtraction ==
    (req.op = "summary" /\ pc = "returned" /\ ContentFound) =>
        LET ps == req.doc0.paragraphs
            nonblank == {i \in 1..Len(ps) : strip(ps[i]) # <<>>}
        IN IF nonblank = {}
           THEN result = <<"No summary available.">>
           ELSE LET first == CHOOSE i \in nonblank : \A j \in nonblank : i <= j
                IN /\ result = strip(ps[first])
                   /\ Head(result) \notin Whitespace
                   /\ result[Len(result)] \notin Whitespace

\* C16 witness: a blank paragraph comes first and the summary is the
\* stripped text of the second.
C16_Witness ==
    /\ req.op = "summary"
    /\ pc = "returned"
    /\ ContentFound
    /\ req.doc0.paragraphs = <<<<"\n">>, <<" ", "Mew", " ">>>>
    /\ result = <<"Mew">>

\* C17: _get_content_div returns the div found by class whenever a document
\* is loaded and has one, the div found by id only when the loaded document
\* has no div of the class, and None when neither exists or nothing was
\* fetched; it changes neither the scraper's document nor any file.
C17_ContentLocation ==
    (req.op = "locate" /\ pc = "returned") =>
        /\ result.by = "class" <=> (req.doc0.fetch = "loaded" /\ req.doc0.cls)
        /\ result.by = "id" <=>
             (req.doc0.fetch = "loaded" /\ ~req.doc0.cls /\ req.doc0.idd)
        /\ result = None <=>
             (req.doc0.fetch # "loaded" \/ (~req.doc0.cls /\ ~req.doc0.idd))
        /\ doc = req.doc0
        /\ store = call.pre
        /\ csv = req.csv0

\* C17 witness: a loaded document has both divs and the one of the class
\* was returned.
C17_Witness ==
    /\ req.op = "locate"
    /\ pc = "returned"
    /\ req.doc0.fetch = "loaded"
    /\ req.doc0.cls
    /\ req.doc0.idd
    /\ result.by = "class"

(***************************************************************************)
(* The crawl started from a phrase typed with an underscore (SpecAlias):   *)
(* the phrases of links never hold one, the command line can.  The        *)
(* frequency file starts absent and the wait is accepted by time.sleep.    *)
(***************************************************************************)
\* the start phrases of SpecAlias
AliasPhrases == {"Mr_Mime"}

\* the tokens a phrase is spelled with
Spelling(phrase) ==
    CASE phrase = "Mr Mime" -> <<"Mr", " ", "Mime">>
      [] phrase = "Mr_Mime" -> <<"Mr", "_", "Mime">>
      [] OTHER -> <<phrase>>

\* _get_url(): f"{self.base_url}/wiki/{self.phrase.replace(' ', '_')}"
get_url(phrase) ==
    <<"https://bulbapedia.bulbagarden.net", "/wiki/">> \o
    replace(Spelling(phrase), " ", <<"_">>)

InitAlias ==
    /\ start_phrase \in AliasPhrases
    /\ max_depth \in DepthArgs
    /\ wait_time = 1
    /\ queue = <<<<start_phrase, 0>>>>
    /\ visited = {start_phrase}
    /\ store = Absent
    /\ pc = "loop"
    /\ cur = NoNode
    /\ soup = NoSoup
    /\ success = "none"
    /\ call = NoCall
    /\ fetched = <<>>
    /\ enqueued = <<start_phrase>>
    /\ waits = 0
    /\ deltas = NoDeltas
    /\ other = Absent
    /\ procs = NoProcs
    /\ trace = <<>>
    /\ NoGraph
    /\ NoPage

SpecAlias == InitAlias /\ [][Next]_vars

\* C14: phrases with the same URL are one phrase to the visited set: no two
\* entries ever appended to the queue have the same URL, and no URL is
\* fetched twice.
C14_OnePhrasePerUrl ==
    /\ \A i, j \in 1..Len(enqueued) :
         get_url(enqueued[i]) = get_url(enqueued[j]) => i = j
    /\ \A i, j \in 1..Len(fetched) :
         get_url(fetched[i][1]) = get_url(fetched[j][1]) => i = j

(***************************************************************************)
(* The two command-line entry points (SpecCli): src/wiki_scraper.py and    *)
(* the older src/wikiscraper.py.  Only the dispatch is modelled here: the  *)
(* handlers that run, in order, not what they do.                          *)
(***************************************************************************)
EntryPoints == {"wiki_scraper.py", "wikiscraper.py"}

\* a phrase option: not given (None), given empty, or given a phrase
PhraseArgs == {"None", "", "Mew"}

\* the argparse namespace; of the options that are no action --number,
\* --depth and --mode are kept, with their defaults 1, 1 and "language"
ArgNamespaces ==
    [summary : PhraseArgs, table : PhraseArgs, count_words : PhraseArgs,
     auto_count_words : PhraseArgs, analyze_relative_word_frequency : BOOLEAN,
     number : {0, 1}, depth : {0, 1}, mode : {"article", "language"}]

\* bool(x) of a str-or-None and of an int
truthy(x) == x \notin {"None", ""}
nonzero(n) == n # 0

\* any([args.summary, args.table, args.count_words, args.auto_count_words,
\*      args.analyze_relative_word_frequency])
any_action(args) ==
    \/ truthy(args.summary)
    \/ truthy(args.table)
    \/ truthy(args.count_words)
    \/ truthy(args.auto_count_words)
    \/ args.analyze_relative_word_frequency

\* any(vars(args).values()) of wikiscraper.py: every option counts
any_value(args) ==
    \/ any_action(args)
    \/ nonzero(args.number)
    \/ nonzero(args.depth)
    \/ truthy(args.mode)

\* ScraperController.run of wiki_scraper.py: the handlers it calls
run(args) ==
    IF truthy(args.summary) THEN <<"summary">>
    ELSE IF truthy(args.table) THEN <<"table">>
    ELSE IF truthy(args.count_words) THEN <<"count">>
    ELSE IF args.analyze_relative_word_frequency THEN <<"analysis">>
    ELSE IF truthy(args.auto_count_words) THEN <<"auto_count">>
    ELSE <<>>

\* ScraperController.run of wikiscraper.py: the branches it takes
run_old(args) ==
    IF args.analyze_relative_word_frequency THEN <<"analysis">>
    ELSE IF truthy(args.auto_count_words) THEN <<"auto_count">>
    ELSE IF truthy(args.summary) THEN <<"summary">>
    ELSE IF truthy(args.table) THEN <<"table">>
    ELSE IF truthy(args.count_words) THEN <<"count">>
    ELSE <<>>

\* what an invocation did: whether the usage text was printed, whether it
\* left through sys.exit(1), and the handlers that ran
Usage == [usage |-> TRUE, exit1 |-> TRUE, handlers |-> <<>>]
Ran(handlers) == [usage |-> FALSE, exit1 |-> FALSE, handlers |-> handlers]

InitCli ==
    /\ start_phrase = "Mew"
    /\ max_depth = 0
    /\ wait_time = 1
    /\ queue = <<>>
    /\ visited = {}
    /\ store = Absent
    /\ pc = "cli"
    /\ cur = NoNode
    /\ soup = NoSoup
    /\ success = "none"
    /\ call = NoCall
    /\ fetched = <<>>
    /\ enqueued = <<>>
    /\ waits = 0
    /\ deltas = NoDeltas
    /\ other = Absent
    /\ procs = NoProcs
    /\ trace = <<>>
    /\ NoGraph
    /\ doc = NoDoc
    /\ result = NoResult
    /\ csv = [kind |-> "absent", value |-> ""]
    /\ \E entry \in EntryPoints, args \in ArgNamespaces :
         req = [op |-> entry, args |-> args]

\* python wiki_scraper.py ...
MainWikiScraper ==
    /\ pc = "cli"
    /\ req.op = "wiki_scraper.py"
    /\ result' = IF ~any_action(req.args) THEN Usage ELSE Ran(run(req.args))
    /\ pc' = "exited"
    /\ UNCHANGED <<doc, req, csv, store, soup, success, call>>
    /\ UNCHANGED crawl_vars
    /\ UNCHANGED more_vars
    /\ UNCHANGED graph_vars

\* python wikiscraper.py ...
MainWikiscraperOld ==
    /\ pc = "cli"
    /\ req.op = "wikiscraper.py"
    /\ result' = IF ~any_value(req.args) THEN Usage ELSE Ran(run_old(req.args))
    /\ pc' = "exited"
    /\ UNCHANGED <<doc, req, csv, store, soup, success, call>>
    /\ UNCHANGED crawl_vars
    /\ UNCHANGED more_vars
    /\ UNCHANGED graph_vars

NextCli == MainWikiScraper \/ MainWikiscraperOld

SpecCli == InitCli /\ [][NextCli]_vars

\* none of the five action arguments is on the command line
NoActionGiven(args) ==
    /\ args.summary = "None"
    /\ args.table = "None"
    /\ args.count_words = "None"
    /\ args.auto_count_words = "None"
    /\ ~args.analyze_relative_word_frequency

\* C18: in both entry points an invocation without any of the five action
\* arguments prints the usage text and exits with a non-zero status without
\* running a handler, and no invocation runs more than one handler.
C18_ActionRequired ==
    pc = "exited" =>
        /\ NoActionGiven(req.args) =>
             (result.usage /\ result.exit1 /\ result.handlers = <<>>)
        /\ Len(result.handlers) <= 1

(***************************************************************************)
(* The crawl over a fixed link graph on which every fetch, every content   *)
(* location and every write of the frequency file succeeds (SpecGraph).    *)
(***************************************************************************)
\* the link lists of the graph's pages: no, one or two links, repeats and
\* links of a page to itself included
GraphLinkLists ==
    {<<>>} \cup {<<p>> : p \in Phrases} \cup {<<p, q>> : p, q \in Phrases}

\* what get_internal_links gives for every phrase
Graphs == [Phrases -> GraphLinkLists]

\* the document of a phrase: fetched, with a content div, without words
page_at(g, phrase) == [ok |-> TRUE, div |-> TRUE, links |-> g[phrase]]

InitGraph ==
    /\ start_phrase \in Phrases
    /\ max_depth \in DepthArgs
    /\ wait_time = 1
    /\ queue = <<<<start_phrase, 0>>>>
    /\ visited = {start_phrase}
    /\ store = Absent
    /\ pc = "loop"
    /\ cur = NoNode
    /\ soup = NoSoup
    /\ success = "none"
    /\ call = NoCall
    /\ fetched = <<>>
    /\ enqueued = <<start_phrase>>
    /\ waits = 0
    /\ deltas = NoDeltas
    /\ other = Absent
    /\ procs = NoProcs
    /\ trace = <<>>
    /\ NoPage
    /\ graph \in Graphs
    /\ hist = <<>>

\* queue.popleft(); scraper = WikiScraper(current_phrase);
\* success = scraper.count_words(), on the page the graph holds
GraphProcessNode ==
    /\ pc = "loop"
    /\ queue # <<>>
    /\ ProcessStep(page_at(graph, Head(queue)[1]), EmptyMap, "ok")
    /\ UNCHANGED more_vars
    /\ UNCHANGED page_vars
    /\ UNCHANGED graph_vars

NextGraph == GraphProcessNode \/ ExpandLinks \/ Pace \/ Finish

SpecGraph == InitGraph /\ [][NextGraph]_vars

\* the phrases that at most k links lead to from s
RECURSIVE Within(_, _, _)
Within(g, s, k) ==
    IF k <= 0
    THEN {s}
    ELSE LET near == Within(g, s, k - 1)
         IN near \cup UNION {Range(g[p]) : p \in near}

\* the shortest link distance from s to a phrase that can be reached
Distance(g, s, p) ==
    CHOOSE k \in 0..Cardinality(Phrases) :
        /\ p \in Within(g, s, k)
        /\ k > 0 => p \notin Within(g, s, k - 1)

\* C23: when every node succeeds and max_depth >= 0, the finished crawl has
\* processed exactly the phrases whose shortest link distance from the
\* start phrase is at most max_depth, each at a depth equal to that
\* distance.
C23_Coverage ==
    (pc = "done" /\ max_depth >= 0) =>
        /\ FetchedPhrases = Within(graph, start_phrase, max_depth)
        /\ \A i \in 1..Len(fetched) :
             fetched[i][2] = Distance(graph, start_phrase, fetched[i][1])

\* C23 witness: the start page links to both other phrases and the first
\* of them links to the second, which is processed at depth 1, its
\* shortest distance; all three are within max_depth = 2.
C23_Witness ==
    /\ pc = "done"
    /\ max_depth = 2
    /\ Len(fetched) = 3
    /\ fetched[2][2] = 1
    /\ fetched[3][2] = 1
    /\ fetched[3][1] \in Range(graph[fetched[2][1]])
    /\ fetched[3][1] # fetched[2][1]

(***************************************************************************)
(* The crawl with a record of every count_words call (SpecSum): the file   *)
(* is absent or a word -> count object at the start, the wait is accepted  *)
(* by time.sleep, and call.pre keeps the file as it was at the start.  The *)
(* links of the pages are fixed; whether a node's fetch, content location  *)
(* and write succeed, and its Counter, are drawn for every node.           *)
(***************************************************************************)
ValidFiles == {Absent, Object([w \in Words |-> MaxCount])}

\* the links of the three pages
SumGraph ==
    [p \in Phrases |->
        CASE p = "Abra" -> <<"Mew", "Mr Mime">>
          [] p = "Mew" -> <<"Mr Mime", "Mew">>
          [] OTHER -> <<"Abra">>]

\* what a fetch of a phrase can give
SumPagesAt(phrase) == {FetchFailed, NoContent, page_at(SumGraph, phrase)}

InitSum ==
    /\ start_phrase \in Phrases
    /\ max_depth \in DepthArgs
    /\ wait_time = 1
    /\ queue = <<<<start_phrase, 0>>>>
    /\ visited = {start_phrase}
    /\ store \in ValidFiles
    /\ pc = "loop"
    /\ cur = NoNode
    /\ soup = NoSoup
    /\ success = "none"
    /\ call = [pre |-> store, words |-> EmptyMap, wr |-> "none"]
    /\ fetched = <<>>
    /\ enqueued = <<start_phrase>>
    /\ waits = 0
    /\ deltas = NoDeltas
    /\ other = Absent
    /\ procs = NoProcs
    /\ trace = <<>>
    /\ NoPage
    /\ graph = SumGraph
    /\ hist = <<>>

\* ProcessNode on the pages of the graph, with the call appended to hist
SumProcessNode ==
    /\ pc = "loop"
    /\ queue # <<>>
    /\ \E page \in SumPagesAt(Head(queue)[1]), wr \in WriteOutcomes :
         \E current_counts \in TalliesOf(page) :
           /\ wr = "ok" \/ WriteReached(store, page, current_counts)
           /\ ProcessStep(page, current_counts, wr)
           /\ hist' = Append(hist,
                [words |-> current_counts,
                 ret |-> count_words(store, page, current_counts, wr).ret,
                 wr |-> IF WriteReached(store, page, current_counts)
                        THEN wr ELSE "none",
                 depth |-> Head(queue)[2]])
    /\ graph' = graph
    /\ UNCHANGED more_vars
    /\ UNCHANGED page_vars

NextSum == SumProcessNode \/ ExpandLinks \/ Pace \/ Finish

SpecSum == InitSum /\ [][NextSum]_vars

\* the key-wise sum of two maps
AddMaps(m1, m2) ==
    [w \in DOMAIN m1 \cup DOMAIN m2 |-> Count(m1, w) + Count(m2, w)]

\* m plus the Counters of the calls i.. of hist that returned True
RECURSIVE SumOfSucceeded(_, _)
SumOfSucceeded(m, i) ==
    IF i > Len(hist)
    THEN m
    ELSE SumOfSucceeded(IF hist[i].ret = "True" THEN AddMaps(m, hist[i].words) ELSE m,
                        i + 1)

\* the calls whose write failed after open(..., 'w') had truncated the file
Truncations == {i \in 1..Len(hist) : hist[i].wr = "dump_fails"}

\* C24: at the end of a crawl that started with a valid file, the file
\* holds the key-wise sum of its initial content and the Counters of
\* exactly the nodes whose count_words returned True.
C24_Aggregation ==
    pc = "done" =>
        /\ store.kind \in {"absent", "object"}
        /\ store.map = SumOfSucceeded(call.pre.map, 1)

\* C24, amended: the sum holds, in every state of the crawl, as long as no
\* write failed after the file was opened; after such a failure the file
\* is undecodable until the next node succeeds, and then holds the sum of
\* the Counters of the nodes that succeeded after the latest such failure,
\* without the initial content and the earlier Counters.
C24_AggregationUnlessTruncated ==
    IF Truncations = {}
    THEN /\ store.kind \in {"absent", "object"}
         /\ store.map = SumOfSucceeded(call.pre.map, 1)
    ELSE LET last == CHOOSE i \in Truncations : \A j \in Truncations : j <= i
         IN IF \E j \in (last + 1)..Len(hist) : hist[j].ret = "True"
            THEN store = Object(SumOfSucceeded(EmptyMap, last + 1))
            ELSE store = BadJson

\* C24 witness: three nodes were processed without a truncating write, the
\* second failed and the third lies at depth max_depth; the finished crawl
\* left the initial content plus the Counters of the first and the third.
C24_Witness ==
    /\ pc = "done"
    /\ Len(hist) = 3
    /\ Truncations = {}
    /\ call.pre.map # EmptyMap
    /\ hist[1].ret = "True" /\ hist[1].words # EmptyMap
    /\ hist[2].ret = "False"
    /\ hist[3].ret = "True" /\ hist[3].words # EmptyMap
    /\ hist[3].depth = max_depth
    /\ store.map = AddMaps(AddMaps(call.pre.map, hist[1].words), hist[3].words)

====
